---- MODULE Spec2Model ----
(***************************************************************************)
(* Verification model of linera-base/src/http.rs (Method, Response,       *)
(* Header and Response::from_reqwest) and of the counter-graphql service  *)
(* (Counter::query_application).                                           *)
(*                                                                         *)
(* Bytes are integers 0..255, byte strings are sequences of bytes, and a   *)
(* Rust String is the sequence of its UTF-8 bytes.                         *)
(***************************************************************************)
EXTENDS Integers, Sequences, FiniteSets, TLC

VARIABLES
    \* Response::from_reqwest, one call
    pc, native, stream, delivered, buf, status, headers, result, drains,
    \* a value crossing an encoding: constructed, encoded, decoded
    val, wire, out,
    \* two Response values being compared and hashed
    lhs, rhs, eqv, hashes,
    \* Method -> reqwest::Method conversions performed so far
    natives,
    \* Counter::query_application, one call
    counter, argument, outcome, polls

callVars    == <<pc, native, stream, delivered, buf, status, headers, result, drains>>
codecVars   == <<val, wire, out>>
eqVars      == <<lhs, rhs, eqv, hashes>>
methodVars  == <<natives>>
serviceVars == <<counter, argument, outcome, polls>>
vars == <<callVars, codecVars, eqVars, methodVars, serviceVars>>

----------------------------------------------------------------------------
(* Bounds of the model *)

\* most chunks the native body stream delivers in one call
MaxChunks == 2
\* most headers of a native response
MaxNativeHeaders == 2
\* most headers of a Response that is encoded
MaxHeaders == 2
\* longest body of a Response that is encoded
MaxBodyLen == 2
\* longest value of a Header that is encoded
MaxValueLen == 3
\* most headers of a Response that is compared
MaxEqHeaders == 2
\* longest invalid argument of a query
MaxArgLen == 3

----------------------------------------------------------------------------
(* Sequences *)

\* every sequence over S of length at most n
SeqUpTo(S, n) == UNION {[1..k -> S] : k \in 0..n}

RECURSIVE Flatten(_)
\* the concatenation of a sequence of sequences, in order
Flatten(ss) == IF ss = <<>> THEN <<>> ELSE Head(ss) \o Flatten(Tail(ss))

----------------------------------------------------------------------------
(* Idle values of the variables a specification does not use *)

NoResult == [tag |-> "None"]

CallIdle ==
    /\ pc = "idle"
    /\ native = [status |-> 200, headers |-> <<>>]
    /\ stream = [state |-> "open"]
    /\ delivered = <<>>
    /\ buf = <<>>
    /\ status = 0
    /\ headers = <<>>
    /\ result = NoResult
    /\ drains = 0

CodecIdle ==
    /\ val = [type |-> "none"]
    /\ wire = [kind |-> "none"]
    /\ out = [serde |-> [type |-> "none"], wit |-> [type |-> "none"]]

EqIdle ==
    /\ lhs = [tag |-> "None"]
    /\ rhs = [tag |-> "None"]
    /\ eqv = "unset"
    /\ hashes = <<>>

Methods ==
    {"Get", "Post", "Put", "Delete", "Head", "Options", "Connect", "Patch", "Trace"}

MethodIdle == natives = [m \in Methods |-> "none"]

ServiceIdle ==
    /\ counter = 0
    /\ argument = <<>>
    /\ outcome = [tag |-> "None"]
    /\ polls = 0

----------------------------------------------------------------------------
(* Response::from_reqwest                                                  *)

\* status codes a reqwest::StatusCode can hold (100..=999), sampled
NativeStatusSamples == {200, 404, 999}

\* header names as the native client exposes them (http::HeaderName is
\* lower case): "a", "x-b"
NativeNameSamples == {<<97>>, <<120, 45, 98>>}

\* header values as the native client exposes them (opaque bytes, no
\* control bytes): "1", [0xFF, 0x80]
NativeValueSamples == {<<49>>, <<255, 128>>}

NativeHeaderSamples ==
    [name : NativeNameSamples, value : NativeValueSamples]

\* body chunks the stream may deliver: [0x00], [0xFF, 0x80], "A"
ChunkSamples == {<<0>>, <<255, 128>>, <<65>>}

\* errors the native body stream may report, besides a timeout
NativeErrors == {"connection_reset", "decode"}

\* name.to_string(): the text of the header name, as stored
NameToString(name) == [i \in 1..Len(name) |-> name[i]]

\* value.as_bytes().to_owned(): a copy of the raw bytes
ValueToOwned(value) == [i \in 1..Len(value) |-> value[i]]

\* the closure of the map: one native header -> (String, Vec<u8>)
ConvertHeader(h) == <<NameToString(h.name), ValueToOwned(h.value)>>

\* response.headers().into_iter().map(..).collect()
CollectHeaders(hs) == [i \in 1..Len(hs) |-> ConvertHeader(hs[i])]

\* response.status().as_u16()
StatusAsU16(s) == s % 65536

\* the struct literal Response { status, headers, body }
MkResponse(s, hs, b) == [status |-> s, headers |-> hs, body |-> b]

\* a faulty variant: only the last chunk is kept
AppendChunkLast(b, c) == c

\* response.bytes(): each chunk received is appended to the buffer
AppendChunk(b, c) == b \o c

\* a faulty variant: an error of the body yields what was received so far
OnBodyErrorPartial(e, s, hs, b) == [tag |-> "Ok", value |-> MkResponse(s, hs, b)]

\* `.await?` on a failed body: the error is returned as it is
OnBodyError(e, s, hs, b) == [tag |-> "Err", error |-> e]

\* `.await?.to_vec()` on a complete body: Ok(Response { .. })
OnBodyComplete(s, hs, b) == [tag |-> "Ok", value |-> MkResponse(s, hs, b)]

\* a faulty variant: a dropped call hands out what it has received
OnDropPartial(r, s, hs, b) == [tag |-> "Ok", value |-> MkResponse(s, hs, b)]

\* the future is dropped while it is pending: nothing is returned
OnDrop(r, s, hs, b) == r

\* a step of the call leaves the rest alone
CallOnly == UNCHANGED <<codecVars, eqVars, methodVars, serviceVars>>

\* from_reqwest(response) up to its only suspension point: the headers are
\* collected, the status read, and the body read is started.
Start(s, hs) ==
    /\ pc = "idle"
    /\ native' = [status |-> s, headers |-> hs]
    /\ headers' = CollectHeaders(hs)
    /\ status' = StatusAsU16(s)
    /\ drains' = drains + 1
    /\ pc' = "awaiting"
    /\ UNCHANGED <<stream, delivered, buf, result>>
    /\ CallOnly

\* the body stream delivers one more chunk
BodyChunk(c) ==
    /\ pc = "awaiting"
    /\ Len(delivered) < MaxChunks
    /\ delivered' = Append(delivered, c)
    /\ buf' = AppendChunk(buf, c)
    /\ UNCHANGED <<pc, native, stream, status, headers, result, drains>>
    /\ CallOnly

\* the body stream is exhausted: the call returns the Response
BodyEnd ==
    /\ pc = "awaiting"
    /\ stream' = [state |-> "ended"]
    /\ result' = OnBodyComplete(status, headers, buf)
    /\ pc' = "done"
    /\ UNCHANGED <<native, delivered, buf, status, headers, drains>>
    /\ CallOnly

\* the body stream fails: the call returns the error
BodyError(e) ==
    /\ pc = "awaiting"
    /\ stream' = [state |-> "failed", error |-> e]
    /\ result' = OnBodyError(e, status, headers, buf)
    /\ pc' = "done"
    /\ UNCHANGED <<native, delivered, buf, status, headers, drains>>
    /\ CallOnly

\* the native client's timeout elapses during the body read: the client
\* reports it as an error of the body
Timeout ==
    /\ pc = "awaiting"
    /\ stream' = [state |-> "timed_out", error |-> "timed_out"]
    /\ result' = OnBodyError("timed_out", status, headers, buf)
    /\ pc' = "done"
    /\ UNCHANGED <<native, delivered, buf, status, headers, drains>>
    /\ CallOnly

\* the caller cancels: the pending future is dropped
Cancel ==
    /\ pc = "awaiting"
    /\ stream' = [state |-> "cancelled"]
    /\ result' = OnDrop(result, status, headers, buf)
    /\ pc' = "dropped"
    /\ UNCHANGED <<native, delivered, buf, status, headers, drains>>
    /\ CallOnly

----------------------------------------------------------------------------
(* Response and Header values, and Header::new                             *)

\* status: u16, sampled at both ends of the range
StatusSamples == {0, 404, 65535}

\* names: "A", "a"
NameSamples == {<<65>>, <<97>>}

\* header values inside a Response: empty, [0xFF, 0x00, 0x80]
PairValueSamples == {<<>>, <<255, 0, 128>>}

\* the (String, Vec<u8>) pairs of Response::headers
PairSamples == {<<n, v>> : n \in NameSamples, v \in PairValueSamples}

\* body bytes: 0x00 and 0xFF (never valid in UTF-8)
BodyByteSamples == {0, 255}

\* header value bytes: 0x00, 0x80, 0xFF
ValueByteSamples == {0, 128, 255}

\* String::from_utf8_lossy on the sampled bytes: a byte that is not ASCII
\* becomes U+FFFD (EF BF BD)
Utf8Lossy(bs) ==
    Flatten([i \in 1..Len(bs) |->
                IF bs[i] < 128 THEN <<bs[i]>> ELSE <<239, 191, 189>>])

\* a faulty variant: the value goes through text on its way in
HeaderNewViaText(name, value) == [name |-> name, value |-> Utf8Lossy(value)]

\* Header::new(name, value)
HeaderNew(name, value) == [name |-> name, value |-> value]

----------------------------------------------------------------------------
(* The structured encoding: what the derived Serialize and Deserialize     *)
(* hand to and take from a serde format, as a sequence of tokens           *)

Tok(t, v) == [t |-> t, v |-> v]

\* the field names, as the strs the derive passes: "status", "headers",
\* "body", "name", "value"
KeyStatus  == <<115, 116, 97, 116, 117, 115>>
KeyHeaders == <<104, 101, 97, 100, 101, 114, 115>>
KeyBody    == <<98, 111, 100, 121>>
KeyName    == <<110, 97, 109, 101>>
KeyValue   == <<118, 97, 108, 117, 101>>

\* Vec<u8> without serde_bytes: a seq of u8
SerU8Seq(bs) ==
    <<Tok("Seq", Len(bs))>> \o [i \in 1..Len(bs) |-> Tok("U8", bs[i])]
        \o <<Tok("SeqEnd", 0)>>

\* (String, Vec<u8>): a tuple of a str and a seq of u8
SerPair(p) ==
    <<Tok("Tuple", 2), Tok("Str", p[1])>> \o SerU8Seq(p[2]) \o <<Tok("TupleEnd", 0)>>

\* Vec<(String, Vec<u8>)>: a seq of tuples
SerHeaders(hs) ==
    <<Tok("Seq", Len(hs))>> \o Flatten([i \in 1..Len(hs) |-> SerPair(hs[i])]) \o <<Tok("SeqEnd", 0)>>

\* a faulty variant: the bytes are written as text
SerBytesAsText(bs) == <<Tok("Str", Utf8Lossy(bs))>>

\* #[serde(with = "serde_bytes")]: the bytes are written as bytes
SerBytes(bs) == <<Tok("Bytes", bs)>>

\* derive(Serialize) for Response
SerializeResponse(r) ==
    <<Tok("Struct", 3)>>
        \o <<Tok("Str", KeyStatus), Tok("U16", r.status)>>
        \o <<Tok("Str", KeyHeaders)>> \o SerHeaders(r.headers)
        \o <<Tok("Str", KeyBody)>> \o SerBytes(r.body)
        \o <<Tok("StructEnd", 0)>>

\* derive(Serialize) for Header
SerializeHeader(h) ==
    <<Tok("Struct", 2)>>
        \o <<Tok("Str", KeyName), Tok("Str", h.name)>>
        \o <<Tok("Str", KeyValue)>> \o SerBytes(h.value)
        \o <<Tok("StructEnd", 0)>>

\* what a parse step returns: a value and the next position, or a failure
Parsed(v, pos) == [ok |-> TRUE, v |-> v, pos |-> pos]
Failed == [ok |-> FALSE, v |-> <<>>, pos |-> 0]

\* the token at pos is of type t
At(toks, pos, t) == pos <= Len(toks) /\ toks[pos].t = t

\* the tokens that carry an integer, of any width
IntTokens == {"U8", "U16", "U32", "U64", "I8", "I16", "I32", "I64"}

\* the token at pos is an integer between 0 and max: an integer visitor
\* takes an integer of any width whose value fits
IntAt(toks, pos, max) ==
    pos <= Len(toks) /\ toks[pos].t \in IntTokens /\ toks[pos].v \in 0..max

\* the token at pos opens a sequence: a seq or a tuple
OpensSeq(toks, pos) == At(toks, pos, "Seq") \/ At(toks, pos, "Tuple")

\* the token that closes what the token of type t opens
Closer(t) ==
    IF t = "Seq" THEN "SeqEnd" ELSE IF t = "Tuple" THEN "TupleEnd" ELSE "StructEnd"

\* the k bytes from pos on are continuation bytes (0x80..0xBF)
IsCont(bs, pos, k) ==
    pos + k - 1 <= Len(bs) /\ \A i \in pos..(pos + k - 1) : bs[i] \in 128..191

\* the length of the UTF-8 sequence that starts at pos, 0 when none does
Utf8Width(bs, pos) ==
    LET b == bs[pos]
        second == IF pos + 1 <= Len(bs) THEN bs[pos + 1] ELSE 0
        k == IF b < 128 THEN 1
             ELSE IF b \in 194..223 THEN 2
             ELSE IF b \in 224..239 THEN 3
             ELSE IF b \in 240..244 THEN 4
             ELSE 0
        low == IF b = 224 THEN 160 ELSE IF b = 240 THEN 144 ELSE 128
        high == IF b = 237 THEN 159 ELSE IF b = 244 THEN 143 ELSE 191
    IN  IF k = 0 THEN 0
        ELSE IF k = 1 THEN 1
        ELSE IF IsCont(bs, pos + 1, k - 1) /\ second \in low..high THEN k
        ELSE 0

RECURSIVE IsUtf8(_, _)
\* std::str::from_utf8(bs).is_ok(), from pos on
IsUtf8(bs, pos) ==
    IF pos > Len(bs) THEN TRUE
    ELSE LET k == Utf8Width(bs, pos)
         IN  IF k = 0 THEN FALSE ELSE IsUtf8(bs, pos + k)

RECURSIVE CountU8(_, _)
\* how many u8 elements follow from pos on: integers of any width that
\* fit a u8
CountU8(toks, pos) ==
    IF IntAt(toks, pos, 255) THEN 1 + CountU8(toks, pos + 1) ELSE 0

\* Vec<u8>: a sequence whose elements are read until it ends; bytes or a
\* str are not taken
DeU8Seq(toks, pos) ==
    IF ~OpensSeq(toks, pos) THEN Failed
    ELSE LET n == CountU8(toks, pos + 1)
         IN  IF At(toks, pos + 1 + n, Closer(toks[pos].t))
             THEN Parsed([i \in 1..n |-> toks[pos + i].v], pos + n + 2)
             ELSE Failed

\* String: a str, or bytes that are valid UTF-8
DeString(toks, pos) ==
    IF At(toks, pos, "Str") THEN Parsed(toks[pos].v, pos + 1)
    ELSE IF At(toks, pos, "Bytes") /\ IsUtf8(toks[pos].v, 1)
    THEN Parsed(toks[pos].v, pos + 1)
    ELSE Failed

\* u16: an integer of any width that fits
DeU16(toks, pos) ==
    IF IntAt(toks, pos, 65535) THEN Parsed(toks[pos].v, pos + 1) ELSE Failed

\* serde_bytes for Vec<u8>: bytes, or the bytes of a str, or a seq of u8
DeBytes(toks, pos) ==
    IF At(toks, pos, "Bytes") \/ At(toks, pos, "Str")
    THEN Parsed(toks[pos].v, pos + 1)
    ELSE DeU8Seq(toks, pos)

\* (String, Vec<u8>): a sequence of two
DePair(toks, pos) ==
    IF ~OpensSeq(toks, pos) THEN Failed
    ELSE LET n == DeString(toks, pos + 1)
         IN  IF ~n.ok THEN Failed
             ELSE LET v == DeU8Seq(toks, n.pos)
                  IN  IF v.ok /\ At(toks, v.pos, Closer(toks[pos].t))
                      THEN Parsed(<<n.v, v.v>>, v.pos + 1)
                      ELSE Failed

RECURSIVE DePairs(_, _, _, _)
\* the elements of Vec<(String, Vec<u8>)>, pushed in the order read, until
\* the token `close`
DePairs(toks, pos, close, acc) ==
    IF At(toks, pos, close) THEN Parsed(acc, pos + 1)
    ELSE LET p == DePair(toks, pos)
         IN  IF p.ok THEN DePairs(toks, p.pos, close, Append(acc, p.v)) ELSE Failed

\* Vec<(String, Vec<u8>)>
DeHeaders(toks, pos) ==
    IF OpensSeq(toks, pos) THEN DePairs(toks, pos + 1, Closer(toks[pos].t), <<>>)
    ELSE Failed

\* what is open once a whole value has been read inside it: a struct is
\* read as entries of a key and a value, so after a key its value is due
\* ("StructValue", which no token closes) and after the value it may end
ValueRead(open) ==
    IF open = <<>> THEN open
    ELSE IF Head(open) = "StructEnd" THEN <<"StructValue">> \o Tail(open)
    ELSE IF Head(open) = "StructValue" THEN <<"StructEnd">> \o Tail(open)
    ELSE open

RECURSIVE SkipFrom(_, _, _)
\* the tokens from pos on are passed over until the value that was entered
\* is whole; open holds what ends each value that is open, innermost first;
\* 0 when the tokens end, close what is not open, or end a struct after a
\* key without its value
SkipFrom(toks, pos, open) ==
    IF pos > Len(toks) THEN 0
    ELSE LET t == toks[pos].t
             scalar == t \in IntTokens \cup {"Str", "Bytes"}
             opens == t \in {"Seq", "Tuple", "Struct"}
             closes == open # <<>> /\ t = Head(open)
             rest == IF opens THEN <<Closer(t)>> \o open
                     ELSE IF closes THEN ValueRead(Tail(open))
                     ELSE ValueRead(open)
         IN  IF ~(scalar \/ opens \/ closes) THEN 0
             ELSE IF rest = <<>> THEN pos + 1
             ELSE SkipFrom(toks, pos + 1, rest)

\* IgnoredAny: the position after the value that starts at pos, whatever
\* the value is; 0 when there is no whole value
SkipValue(toks, pos) == SkipFrom(toks, pos, <<>>)

\* the value of a key that is not a field is read and dropped
DeIgnored(toks, pos) ==
    LET n == SkipValue(toks, pos) IN IF n = 0 THEN Failed ELSE Parsed(<<>>, n)

\* the names of the fields of a type, in the order declared
KeysOf(type) ==
    IF type = "Response" THEN <<KeyStatus, KeyHeaders, KeyBody>>
    ELSE <<KeyName, KeyValue>>

\* the tokens that reach the field visitor's visit_u64
UnsignedTokens == {"U8", "U16", "U32", "U64"}

\* the field identifier: a str or bytes naming a field, or the index of a
\* field as an unsigned integer; any other name or index is a key to ignore
\* (<<>>); any other token, a signed integer included, is an error
DeKey(type, toks, pos) ==
    IF At(toks, pos, "Str") \/ At(toks, pos, "Bytes") THEN
        IF \E i \in 1..Len(KeysOf(type)) : KeysOf(type)[i] = toks[pos].v
        THEN Parsed(toks[pos].v, pos + 1) ELSE Parsed(<<>>, pos + 1)
    ELSE IF pos <= Len(toks) /\ toks[pos].t \in UnsignedTokens /\ toks[pos].v >= 0 THEN
        IF toks[pos].v < Len(KeysOf(type))
        THEN Parsed(KeysOf(type)[toks[pos].v + 1], pos + 1) ELSE Parsed(<<>>, pos + 1)
    ELSE Failed

\* the value of a key of Response: a field by its type, any other key's
\* value is ignored
DeResponseField(key, toks, pos) ==
    IF key = KeyStatus THEN DeU16(toks, pos)
    ELSE IF key = KeyHeaders THEN DeHeaders(toks, pos)
    ELSE IF key = KeyBody THEN DeBytes(toks, pos)
    ELSE DeIgnored(toks, pos)

\* the value of a key of Header
DeHeaderField(key, toks, pos) ==
    IF key = KeyName THEN DeString(toks, pos)
    ELSE IF key = KeyValue THEN DeBytes(toks, pos)
    ELSE DeIgnored(toks, pos)

\* the value of a key of the type
DeField(type, key, toks, pos) ==
    IF type = "Response" THEN DeResponseField(key, toks, pos)
    ELSE DeHeaderField(key, toks, pos)

RECURSIVE DeFields(_, _, _, _)
\* the visitor's visit_map: key, value, ... until the struct ends; a field
\* given twice is an error, a key that is not a field is ignored. acc maps
\* the fields read so far to their values.
DeFields(type, toks, pos, acc) ==
    IF At(toks, pos, "StructEnd") THEN Parsed(acc, pos + 1)
    ELSE LET k == DeKey(type, toks, pos)
         IN  IF ~k.ok \/ k.v \in DOMAIN acc THEN Failed
             ELSE LET f == DeField(type, k.v, toks, k.pos)
                  IN  IF ~f.ok THEN Failed
                      ELSE DeFields(type, toks, f.pos,
                                    IF k.v = <<>> THEN acc ELSE (k.v :> f.v) @@ acc)

RECURSIVE DeFieldsSeq(_, _, _, _, _)
\* the visitor's visit_seq: the fields in the order declared, from the
\* i-th on, then the end of the sequence
DeFieldsSeq(type, toks, pos, close, acc) ==
    IF Len(acc) = Len(KeysOf(type)) THEN
        IF At(toks, pos, close) THEN Parsed(acc, pos + 1) ELSE Failed
    ELSE LET key == KeysOf(type)[Len(acc) + 1]
             f == DeField(type, key, toks, pos)
         IN  IF f.ok THEN DeFieldsSeq(type, toks, f.pos, close, Append(acc, <<f.v>>))
             ELSE Failed

\* the Response that visit_map builds from the fields read: every field
\* must have been given, and the input must end at `end`
ResponseOfMap(m, end) ==
    IF m.ok /\ m.pos = end /\ DOMAIN m.v = {KeyStatus, KeyHeaders, KeyBody}
    THEN Parsed([status |-> m.v[KeyStatus], headers |-> m.v[KeyHeaders],
                 body |-> m.v[KeyBody]], m.pos)
    ELSE Failed

\* the Response that visit_seq builds from the fields read
ResponseOfSeq(s, end) ==
    IF s.ok /\ s.pos = end
    THEN Parsed([status |-> s.v[1][1], headers |-> s.v[2][1], body |-> s.v[3][1]],
                s.pos)
    ELSE Failed

\* derive(Deserialize) for Response: a map of its fields, every one given,
\* or a sequence of its fields
DeserializeResponse(toks) ==
    IF At(toks, 1, "Struct")
    THEN ResponseOfMap(DeFields("Response", toks, 2, <<>>), Len(toks) + 1)
    ELSE IF OpensSeq(toks, 1)
    THEN ResponseOfSeq(DeFieldsSeq("Response", toks, 2, Closer(toks[1].t), <<>>),
                       Len(toks) + 1)
    ELSE Failed

\* the Header that visit_map builds from the fields read
HeaderOfMap(m, end) ==
    IF m.ok /\ m.pos = end /\ DOMAIN m.v = {KeyName, KeyValue}
    THEN Parsed([name |-> m.v[KeyName], value |-> m.v[KeyValue]], m.pos)
    ELSE Failed

\* the Header that visit_seq builds from the fields read
HeaderOfSeq(s, end) ==
    IF s.ok /\ s.pos = end
    THEN Parsed([name |-> s.v[1][1], value |-> s.v[2][1]], s.pos)
    ELSE Failed

\* derive(Deserialize) for Header
DeserializeHeader(toks) ==
    IF At(toks, 1, "Struct")
    THEN HeaderOfMap(DeFields("Header", toks, 2, <<>>), Len(toks) + 1)
    ELSE IF OpensSeq(toks, 1)
    THEN HeaderOfSeq(DeFieldsSeq("Header", toks, 2, Closer(toks[1].t), <<>>),
                     Len(toks) + 1)
    ELSE Failed

----------------------------------------------------------------------------
(* The boundary encoding: what the derived WitStore and WitLoad write to   *)
(* and read from the guest's linear memory. Memory is a sequence of bytes; *)
(* address a is position a + 1.                                            *)

\* a faulty variant: body is declared before headers
ResponseFieldsBodyFirst == <<"status", "body", "headers">>

\* the fields of Response, as declared
ResponseFields == <<"status", "headers", "body">>

\* the fields of Header, as declared
HeaderFields == <<"name", "value">>

RECURSIVE LE(_, _)
\* n in w bytes, little-endian
LE(n, w) == IF w = 0 THEN <<>> ELSE <<n % 256>> \o LE(n \div 256, w - 1)

RECURSIVE FromLE(_)
\* the number a little-endian byte sequence stands for
FromLE(bs) == IF bs = <<>> THEN 0 ELSE Head(bs) + 256 * FromLE(Tail(bs))

\* the w bytes at address a
Peek(mem, a, w) == SubSeq(mem, a + 1, a + w)

\* mem with bs written at address a
Poke(mem, a, bs) ==
    SubSeq(mem, 1, a) \o bs \o SubSeq(mem, a + Len(bs) + 1, Len(mem))

AlignUp(n, a) == ((n + a - 1) \div a) * a

\* size bytes, aligned, taken at the end of the memory
Alloc(mem, size, align) ==
    LET a == AlignUp(Len(mem), align)
    IN  [addr |-> a, mem |-> mem \o [i \in 1..(a + size - Len(mem)) |-> 0]]

\* a u16 takes 2 bytes; a string or a list is an address and a length
WitSize(f) == IF f = "status" THEN 2 ELSE 8
WitAlign(f) == IF f = "status" THEN 2 ELSE 4

RECURSIVE WitOffset(_, _)
\* where the i-th field of a record starts
WitOffset(fields, i) ==
    IF i = 1 THEN 0
    ELSE AlignUp(WitOffset(fields, i - 1) + WitSize(fields[i - 1]), WitAlign(fields[i]))

\* the size of a record: its fields, padded to the widest alignment
WitRecordSize(fields) ==
    AlignUp(WitOffset(fields, Len(fields)) + WitSize(fields[Len(fields)]), 4)

\* a Vec<u8> or a String: the bytes are copied, then (address, length) is
\* written at loc
StoreBytes(mem, loc, bs) ==
    LET a == Alloc(mem, Len(bs), 1)
    IN  Poke(Poke(a.mem, a.addr, bs), loc, LE(a.addr, 4) \o LE(Len(bs), 4))

RECURSIVE StorePairs(_, _, _, _)
\* the elements of a Vec<(String, Vec<u8>)>, 16 bytes each, from the i-th on
StorePairs(mem, base, hs, i) ==
    IF i > Len(hs) THEN mem
    ELSE LET at == base + 16 * (i - 1)
             m1 == StoreBytes(mem, at, hs[i][1])
             m2 == StoreBytes(m1, at + 8, hs[i][2])
         IN  StorePairs(m2, base, hs, i + 1)

\* a Vec<(String, Vec<u8>)>
StoreHeaders(mem, loc, hs) ==
    LET a == Alloc(mem, 16 * Len(hs), 4)
        m1 == Poke(a.mem, loc, LE(a.addr, 4) \o LE(Len(hs), 4))
    IN  StorePairs(m1, a.addr, hs, 1)

\* one field of a record
StoreField(mem, loc, f, v) ==
    IF f = "status" THEN Poke(mem, loc, LE(v, 2))
    ELSE IF f = "headers" THEN StoreHeaders(mem, loc, v)
    ELSE StoreBytes(mem, loc, v)

RECURSIVE StoreFields(_, _, _, _, _)
\* the fields of a record from the i-th on, in the order declared
StoreFields(mem, base, fields, rec, i) ==
    IF i > Len(fields) THEN mem
    ELSE StoreFields(
            StoreField(mem, base + WitOffset(fields, i), fields[i], rec[fields[i]]),
            base, fields, rec, i + 1)

\* WitStore for a record: returns the memory and the record's address
WitStoreRecord(fields, rec) ==
    LET a == Alloc(<<>>, WitRecordSize(fields), 4)
    IN  [addr |-> a.addr, memory |-> StoreFields(a.mem, a.addr, fields, rec, 1)]

\* derive(WitStore) for Response and for Header
WitStoreResponse(r) == WitStoreRecord(ResponseFields, r)
WitStoreHeader(h) == WitStoreRecord(HeaderFields, h)

\* a Vec<u8> or a String
LoadBytes(mem, loc) ==
    LET a == FromLE(Peek(mem, loc, 4))
        n == FromLE(Peek(mem, loc + 4, 4))
    IN  Peek(mem, a, n)

\* a Vec<(String, Vec<u8>)>
LoadHeaders(mem, loc) ==
    LET a == FromLE(Peek(mem, loc, 4))
        n == FromLE(Peek(mem, loc + 4, 4))
    IN  [i \in 1..n |->
            <<LoadBytes(mem, a + 16 * (i - 1)), LoadBytes(mem, a + 16 * (i - 1) + 8)>>]

\* one field of a record
LoadField(mem, loc, f) ==
    IF f = "status" THEN FromLE(Peek(mem, loc, 2))
    ELSE IF f = "headers" THEN LoadHeaders(mem, loc)
    ELSE LoadBytes(mem, loc)

\* where field f of a record is
WitFieldOffset(fields, f) ==
    WitOffset(fields, CHOOSE i \in 1..Len(fields) : fields[i] = f)

\* WitLoad for a record
WitLoadRecord(fields, mem, base) ==
    [f \in {fields[i] : i \in 1..Len(fields)} |->
        LoadField(mem, base + WitFieldOffset(fields, f), f)]

\* derive(WitLoad) for Response and for Header
WitLoadResponse(mem, base) == WitLoadRecord(ResponseFields, mem, base)
WitLoadHeader(mem, base) == WitLoadRecord(HeaderFields, mem, base)

Init ==
    /\ CallIdle
    /\ CodecIdle
    /\ EqIdle
    /\ MethodIdle
    /\ ServiceIdle

----------------------------------------------------------------------------
(* A value is constructed, then crosses each encoding once                 *)

CodecOnly == UNCHANGED <<callVars, eqVars, methodVars, serviceVars>>

\* a Response is put together by hand
NewResponse(s, hs, b) ==
    /\ val.type = "none"
    /\ val' = [type |-> "Response", v |-> MkResponse(s, hs, b), given |-> <<s, hs, b>>]
    /\ UNCHANGED <<wire, out>>
    /\ CodecOnly

\* Header::new(name, value)
NewHeader(name, value) ==
    /\ val.type = "none"
    /\ val' = [type |-> "Header", v |-> HeaderNew(name, value), given |-> <<name, value>>]
    /\ UNCHANGED <<wire, out>>
    /\ CodecOnly

\* the value is serialized
Serialize ==
    /\ val.type # "none"
    /\ wire.kind = "none"
    /\ out.serde.type = "none"
    /\ wire' = [kind |-> "serde",
                tokens |-> IF val.type = "Response" THEN SerializeResponse(val.v)
                           ELSE SerializeHeader(val.v)]
    /\ UNCHANGED <<val, out>>
    /\ CodecOnly

\* the tokens are deserialized as the type that was serialized
Deserialize ==
    /\ wire.kind = "serde"
    /\ LET d == IF val.type = "Response" THEN DeserializeResponse(wire.tokens)
                ELSE DeserializeHeader(wire.tokens)
       IN  out' = [out EXCEPT !.serde =
                      IF d.ok THEN [type |-> val.type, v |-> d.v] ELSE [type |-> "error"]]
    /\ wire' = [kind |-> "none"]
    /\ UNCHANGED val
    /\ CodecOnly

\* the value is stored into the guest's memory
WitStore ==
    /\ val.type # "none"
    /\ wire.kind = "none"
    /\ out.wit.type = "none"
    /\ LET s == IF val.type = "Response" THEN WitStoreResponse(val.v)
                ELSE WitStoreHeader(val.v)
       IN  wire' = [kind |-> "wit", memory |-> s.memory, addr |-> s.addr]
    /\ UNCHANGED <<val, out>>
    /\ CodecOnly

\* the value is loaded from the guest's memory
WitLoad ==
    /\ wire.kind = "wit"
    /\ out' = [out EXCEPT !.wit =
                  [type |-> val.type,
                   v |-> IF val.type = "Response"
                         THEN WitLoadResponse(wire.memory, wire.addr)
                         ELSE WitLoadHeader(wire.memory, wire.addr)]]
    /\ wire' = [kind |-> "none"]
    /\ UNCHANGED val
    /\ CodecOnly

NextCodec ==
    \/ \E s \in StatusSamples, hs \in SeqUpTo(PairSamples, MaxHeaders),
          b \in SeqUpTo(BodyByteSamples, MaxBodyLen) : NewResponse(s, hs, b)
    \/ \E n \in NameSamples, v \in SeqUpTo(ValueByteSamples, MaxValueLen) : NewHeader(n, v)
    \/ Serialize
    \/ Deserialize
    \/ WitStore
    \/ WitLoad

SpecCodec == Init /\ [][NextCodec]_vars

Next ==
    \/ \E s \in NativeStatusSamples,
          hs \in SeqUpTo(NativeHeaderSamples, MaxNativeHeaders) : Start(s, hs)
    \/ \E c \in ChunkSamples : BodyChunk(c)
    \/ BodyEnd
    \/ \E e \in NativeErrors : BodyError(e)
    \/ Timeout
    \/ Cancel

Spec == Init /\ [][Next]_vars

----------------------------------------------------------------------------
(* Claims about Response::from_reqwest, checked under Spec *)

\* the body stream reported an error (a timeout included)
StreamFailed == stream.state \in {"failed", "timed_out"}

\* C6: a call has two outcomes only, a Response holding the fully drained
\* body or the native error unchanged; a stream that fails after delivering
\* bytes yields that error, never a Response with a partial body; the body
\* is read once (no retry); before the outcome nothing is observable.
C6_TwoOutcomes ==
    /\ result.tag \in {"None", "Ok", "Err"}
    /\ (result.tag = "None") <=> (pc \in {"idle", "awaiting", "dropped"})
    /\ result.tag = "Ok" =>
          /\ stream.state = "ended"
          /\ result.value.body = Flatten(delivered)
    /\ result.tag = "Err" =>
          /\ StreamFailed
          /\ result.error = stream.error
    /\ StreamFailed => result = [tag |-> "Err", error |-> stream.error]
    /\ drains <= 1

\* the stream failed after it had delivered two chunks
C6_Witness ==
    /\ stream.state = "failed"
    /\ Len(delivered) = 2
    /\ Flatten(delivered) # <<>>
    /\ result.tag = "Err"

\* C7: a successful call returns the native status, the native headers
\* converted pair by pair in the same order (repeated names kept, names as
\* exposed) and the concatenation of the chunks in arrival order, and it
\* returns only once the body stream is exhausted.
C7_SuccessValue ==
    result.tag = "Ok" =>
        /\ stream.state = "ended"
        /\ result.value.status = native.status
        /\ Len(result.value.headers) = Len(native.headers)
        /\ \A i \in 1..Len(native.headers) :
              /\ result.value.headers[i][1] = native.headers[i].name
              /\ result.value.headers[i][2] = native.headers[i].value
        /\ result.value.body = Flatten(delivered)

\* a 404 with a repeated header name and a body that came in two chunks
C7_Witness ==
    /\ result.tag = "Ok"
    /\ result.value.status = 404
    /\ Len(native.headers) = 2
    /\ native.headers[1].name = native.headers[2].name
    /\ native.headers[1].value # native.headers[2].value
    /\ Len(delivered) = 2
    /\ delivered[1] # delivered[2]

\* C9 as stated: a call whose native request is cancelled or times out
\* during the body read never yields anything.
C9_NeverCompletes ==
    stream.state \in {"cancelled", "timed_out"} => result.tag = "None"

\* C9 as amended: a cancelled call yields nothing, ever; a timeout reaches
\* the call as the body's error and the call returns that error; neither
\* yields a Response, so no partial body is handed out.
C9_CancelOrTimeout ==
    /\ stream.state = "cancelled" => result.tag = "None" /\ pc = "dropped"
    /\ stream.state = "timed_out" =>
          result = [tag |-> "Err", error |-> "timed_out"]
    /\ stream.state \in {"cancelled", "timed_out"} => result.tag # "Ok"

\* the call was cancelled after part of the body had arrived
C9_Witness ==
    /\ stream.state = "cancelled"
    /\ delivered # <<>>
    /\ buf # <<>>
    /\ result.tag = "None"

----------------------------------------------------------------------------
(* Claims about the encodings, checked under SpecCodec *)

\* C1: a Response that went through the structured encoding comes back
\* equal to the Response that went in, whatever its status, headers and
\* body (empty ones, 0x00 and bytes that are not UTF-8 included).
C1_SerdeRoundTrip ==
    (val.type = "Response" /\ out.serde.type # "none") =>
        /\ out.serde.type = "Response"
        /\ out.serde.v = val.v

\* a Response with a repeated header name, a header value [0xFF, 0x00,
\* 0x80] and the body [0x00, 0xFF] has been deserialized
C1_Witness ==
    /\ val.type = "Response"
    /\ Len(val.v.headers) = 2
    /\ val.v.headers[1][1] = val.v.headers[2][1]
    /\ val.v.headers[1][2] = <<255, 0, 128>>
    /\ val.v.body = <<0, 255>>
    /\ out.serde.type = "Response"

\* C2: a Response stored into the boundary encoding has its status first,
\* then its headers, then its body, in the record that is stored, and the
\* Response loaded from it equals the Response that was stored.
C2_WitRoundTrip ==
    /\ (val.type = "Response" /\ wire.kind = "wit") =>
          /\ FromLE(Peek(wire.memory, wire.addr, 2)) = val.v.status
          /\ FromLE(Peek(wire.memory, wire.addr + 8, 4)) = Len(val.v.headers)
          /\ FromLE(Peek(wire.memory, wire.addr + 16, 4)) = Len(val.v.body)
    /\ (val.type = "Response" /\ out.wit.type # "none") =>
          /\ out.wit.type = "Response"
          /\ out.wit.v = val.v

\* a Response with status 65535, two headers and one body byte has been
\* stored and loaded
C2_Witness ==
    /\ val.type = "Response"
    /\ val.v.status = 65535
    /\ Len(val.v.headers) = 2
    /\ val.v.headers[2][2] = <<255, 0, 128>>
    /\ val.v.body = <<255>>
    /\ out.wit.type = "Response"

\* C3: Header::new(name, v) holds exactly name and v, for every byte
\* sequence v, and the Header that comes back from either encoding has the
\* same name and the same bytes in the same order.
C3_HeaderBinarySafe ==
    val.type = "Header" =>
        /\ val.v.name = val.given[1]
        /\ val.v.value = val.given[2]
        /\ out.serde.type # "none" =>
              /\ out.serde.type = "Header"
              /\ out.serde.v.name = val.given[1]
              /\ out.serde.v.value = val.given[2]
        /\ out.wit.type # "none" =>
              /\ out.wit.type = "Header"
              /\ out.wit.v.name = val.given[1]
              /\ out.wit.v.value = val.given[2]

\* Header::new(_, [0xFF, 0x00, 0x80]) has come back from both encodings
C3_Witness ==
    /\ val.type = "Header"
    /\ val.given[2] = <<255, 0, 128>>
    /\ out.serde.type = "Header"
    /\ out.wit.type = "Header"

----------------------------------------------------------------------------
(* Equality and hashing of Response                                        *)

\* the pairs ("A", "1") and ("A", "2")
EqPairSamples == {<<<<65>>, <<49>>>>, <<<<65>>, <<50>>>>}

EqBodySamples == {<<>>, <<0>>, <<255>>}

EqResponses ==
    {MkResponse(s, hs, b) : s \in {200, 404},
                            hs \in SeqUpTo(EqPairSamples, MaxEqHeaders),
                            b \in EqBodySamples}

\* Vec<u8> == Vec<u8>, str == str: the same length and the same bytes
BytesEq(x, y) == Len(x) = Len(y) /\ \A i \in 1..Len(x) : x[i] = y[i]

\* a faulty variant: the headers are compared as a set
PairsEqUnordered(x, y) ==
    {x[i] : i \in 1..Len(x)} = {y[i] : i \in 1..Len(y)}

\* Vec<(String, Vec<u8>)> == ..: the same length and, position by
\* position, the same name and the same value
PairsEq(x, y) ==
    /\ Len(x) = Len(y)
    /\ \A i \in 1..Len(x) : BytesEq(x[i][1], y[i][1]) /\ BytesEq(x[i][2], y[i][2])

\* derive(PartialEq) for Response: field by field
ResponseEq(a, b) ==
    /\ a.status = b.status
    /\ PairsEq(a.headers, b.headers)
    /\ BytesEq(a.body, b.body)

\* what Vec<u8> feeds a Hasher: its length (a usize), then its bytes
HashBytes(bs) == LE(Len(bs), 8) \o bs

\* what a str feeds a Hasher: its bytes, then 0xFF
HashStr(s) == s \o <<255>>

\* what (String, Vec<u8>) feeds a Hasher
HashPair(p) == HashStr(p[1]) \o HashBytes(p[2])

\* derive(Hash) for Response: what the fields feed a Hasher, in order; the
\* hash is a function of this
ResponseHash(r) ==
    LE(r.status, 2)
        \o LE(Len(r.headers), 8) \o Flatten([i \in 1..Len(r.headers) |-> HashPair(r.headers[i])])
        \o HashBytes(r.body)

\* a Response built another way: as a literal, or back from an encoding
BuiltVia(via, r) ==
    IF via = "serde" THEN DeserializeResponse(SerializeResponse(r)).v
    ELSE IF via = "wit" THEN
        LET s == WitStoreResponse(r) IN WitLoadResponse(s.memory, s.addr)
    ELSE MkResponse(r.status, r.headers, r.body)

EqOnly == UNCHANGED <<callVars, codecVars, methodVars, serviceVars>>

\* two Responses are built, the second one by the path `via`
Build(a, b, via) ==
    /\ lhs.tag = "None"
    /\ lhs' = [tag |-> "Some", v |-> a, via |-> "literal"]
    /\ rhs' = [tag |-> "Some", v |-> BuiltVia(via, b), via |-> via]
    /\ UNCHANGED <<eqv, hashes>>
    /\ EqOnly

\* lhs == rhs, and both are hashed
Compare ==
    /\ lhs.tag = "Some"
    /\ eqv = "unset"
    /\ eqv' = IF ResponseEq(lhs.v, rhs.v) THEN "eq" ELSE "ne"
    /\ hashes' = <<ResponseHash(lhs.v), ResponseHash(rhs.v)>>
    /\ UNCHANGED <<lhs, rhs>>
    /\ EqOnly

NextEq ==
    \/ \E a \in EqResponses, b \in EqResponses, via \in {"literal", "serde", "wit"} :
          Build(a, b, via)
    \/ Compare

SpecEq == Init /\ [][NextEq]_vars

\* C8: two Responses compare equal exactly when their status, their header
\* sequences (position by position) and their bodies are equal, however
\* each was built; equal Responses hash equally.
C8_StructuralEq ==
    eqv # "unset" =>
        /\ (eqv = "eq") <=>
              /\ lhs.v.status = rhs.v.status
              /\ lhs.v.headers = rhs.v.headers
              /\ lhs.v.body = rhs.v.body
        /\ eqv = "eq" => hashes[1] = hashes[2]

\* two Responses with the same two headers in the other order, one of them
\* back from an encoding, compared unequal
C8_Witness ==
    /\ eqv = "ne"
    /\ rhs.via = "serde"
    /\ lhs.v.status = rhs.v.status
    /\ lhs.v.body = rhs.v.body
    /\ Len(lhs.v.headers) = 2
    /\ lhs.v.headers[1] # lhs.v.headers[2]
    /\ rhs.v.headers = <<lhs.v.headers[2], lhs.v.headers[1]>>

----------------------------------------------------------------------------
(* Method -> reqwest::Method                                               *)

\* a faulty variant: PATCH is sent as PUT
MethodIntoReqwestPatchAsPut(method) ==
    CASE method = "Get" -> "GET"
      [] method = "Post" -> "POST"
      [] method = "Put" -> "PUT"
      [] method = "Delete" -> "DELETE"
      [] method = "Head" -> "HEAD"
      [] method = "Options" -> "OPTIONS"
      [] method = "Connect" -> "CONNECT"
      [] method = "Patch" -> "PUT"
      [] method = "Trace" -> "TRACE"

\* impl From<Method> for reqwest::Method
MethodIntoReqwest(method) ==
    CASE method = "Get" -> "GET"
      [] method = "Post" -> "POST"
      [] method = "Put" -> "PUT"
      [] method = "Delete" -> "DELETE"
      [] method = "Head" -> "HEAD"
      [] method = "Options" -> "OPTIONS"
      [] method = "Connect" -> "CONNECT"
      [] method = "Patch" -> "PATCH"
      [] method = "Trace" -> "TRACE"

MethodOnly == UNCHANGED <<callVars, codecVars, eqVars, serviceVars>>

\* reqwest::Method::from(method), for a method not converted before
Convert(method) ==
    /\ natives[method] = "none"
    /\ natives' = [natives EXCEPT ![method] = MethodIntoReqwest(method)]
    /\ MethodOnly

NextMethod == \E method \in Methods : Convert(method)

SpecMethod == Init /\ [][NextMethod]_vars

\* C5: every variant converts, to the native verb of its own name, and no
\* two variants convert to the same native method.
C5_TotalInjective ==
    /\ \A m \in Methods : natives[m] # "none" =>
          natives[m] = [Get |-> "GET", Post |-> "POST", Put |-> "PUT",
                        Delete |-> "DELETE", Head |-> "HEAD",
                        Options |-> "OPTIONS", Connect |-> "CONNECT",
                        Patch |-> "PATCH", Trace |-> "TRACE"][m]
    /\ \A m1, m2 \in Methods :
          (m1 # m2 /\ natives[m1] # "none" /\ natives[m2] # "none")
              => natives[m1] # natives[m2]
    /\ \A m \in Methods : ENABLED Convert(m) \/ natives[m] # "none"

\* all nine variants have been converted
C5_Witness ==
    /\ Cardinality(Methods) = 9
    /\ \A m \in Methods : natives[m] # "none"

----------------------------------------------------------------------------
(* Counter::query_application                                              *)

\* the values of the two tests, and zero
CounterSamples == {0, 4, 61098721}

\* the bytes an argument that is no JSON is made of: 0x02, ' ', '{'
ArgByteSamples == {2, 32, 123}

\* {"query":"{hello}"}
HelloQuery ==
    <<123, 34, 113, 117, 101, 114, 121, 34, 58, 34,
      123, 104, 101, 108, 108, 111, 125, 34, 125>>

ArgSamples == SeqUpTo(ArgByteSamples, MaxArgLen) \cup {HelloQuery}

\* bcs::to_bytes(&value) for a u128: 16 bytes, little-endian
BcsU128(value) == LE(value, 16)

\* JSON white space
IsWs(b) == b \in {32, 9, 10, 13}

RECURSIVE SkipWs(_, _)
\* the first position from pos on that holds no white space
SkipWs(arg, pos) ==
    IF pos <= Len(arg) /\ IsWs(arg[pos]) THEN SkipWs(arg, pos + 1) ELSE pos

\* arg holds the bytes of lit at pos
HasAt(arg, pos, lit) ==
    pos + Len(lit) - 1 <= Len(arg) /\ SubSeq(arg, pos, pos + Len(lit) - 1) = lit

RECURSIVE StringEnd(_, _)
\* the position of the quote that closes a string without escapes, or 0
StringEnd(arg, pos) ==
    IF pos > Len(arg) \/ arg[pos] < 32 \/ arg[pos] = 92 THEN 0
    ELSE IF arg[pos] = 34 THEN pos
    ELSE StringEnd(arg, pos + 1)

\* serde_json::from_slice::<async_graphql::Request>(argument), for the
\* arguments sampled: the object {"query":"<text>"}, or an error
JsonFromSlice(arg) ==
    LET p == SkipWs(arg, 1)
        key == <<123, 34, 113, 117, 101, 114, 121, 34, 58, 34>>
        q == StringEnd(arg, p + Len(key))
    IN  IF HasAt(arg, p, key) /\ q > 0 /\ HasAt(arg, q + 1, <<125>>)
             /\ SkipWs(arg, q + 2) = Len(arg) + 1
        THEN [ok |-> TRUE, query |-> SubSeq(arg, p + Len(key), q - 1)]
        ELSE [ok |-> FALSE, query |-> <<>>]

\* schema.execute(request) and serde_json::to_vec(&res), for the query
\* {hello} of DummyObject: {"data":{"hello":"Hello World!"}}
ExecuteToVec(query) ==
    CASE query = <<123, 104, 101, 108, 108, 111, 125>> ->
        <<123, 34, 100, 97, 116, 97, 34, 58, 123, 34, 104, 101, 108, 108, 111, 34, 58,
          34, 72, 101, 108, 108, 111, 32, 87, 111, 114, 108, 100, 33, 34, 125, 125>>

\* Counter::query_application(&self, _context, argument): the argument is
\* parsed with unwrap(), the query executed, the response serialized
QueryApplication(value, arg) ==
    LET request == JsonFromSlice(arg)
    IN  IF ~request.ok THEN [tag |-> "Panic"]
        ELSE [tag |-> "Ok", bytes |-> ExecuteToVec(request.query)]

ServiceOnly == UNCHANGED <<callVars, codecVars, eqVars, methodVars>>

\* one call, polled once
Query(value, arg) ==
    /\ outcome.tag = "None"
    /\ counter' = value
    /\ argument' = arg
    /\ outcome' = QueryApplication(value, arg)
    /\ polls' = polls + 1
    /\ ServiceOnly

NextService == \E value \in CounterSamples, arg \in ArgSamples : Query(value, arg)

SpecService == Init /\ [][NextService]_vars

\* C10: a query is answered at its first poll with a Result, never an
\* abort: the empty argument with Ok(the BCS bytes of the counter value),
\* the argument [2] with Err(Error::InvalidQuery).
C10_QueryResult ==
    outcome.tag # "None" =>
        /\ polls = 1
        /\ outcome.tag \in {"Ok", "Err"}
        /\ argument = <<>> => outcome = [tag |-> "Ok", bytes |-> BcsU128(counter)]
        /\ argument = <<2>> => outcome = [tag |-> "Err", error |-> "InvalidQuery"]

====
